---------------------------- MODULE Spec2Model ----------------------------
(***************************************************************************)
(* Modbus register and bit sensors                                         *)
(* (homeassistant/components/modbus/sensor.py).                            *)
(*                                                                         *)
(* async_setup_platform resolves a struct format for every configured      *)
(* entry and constructs the sensors that pass its checks; update() polls   *)
(* the hub and decodes the returned registers into the sensor's value.     *)
(*                                                                         *)
(* Representation of Python values:                                        *)
(*   str    a sequence of Unicode code points                              *)
(*   bytes  a sequence of 0..255                                           *)
(*   int    [t |-> "int", neg, mag], mag the decimal digits, least         *)
(*          significant first, <<>> for zero (arbitrary precision)         *)
(*   bool   [t |-> "bool", b]                                              *)
(*   float  [t |-> "float", cls, neg, mag, exp]: cls "fin" is the double   *)
(*          mag * 2^exp, cls "inf" and "nan" are the IEEE specials         *)
(***************************************************************************)
EXTENDS Integers, Sequences, FiniteSets, TLC

(***************************************************************************)
(* Sequences                                                               *)
(***************************************************************************)
RECURSIVE Reverse(_)
Reverse(s) == IF s = <<>> THEN <<>> ELSE Reverse(Tail(s)) \o <<Head(s)>>

RECURSIVE Flatten(_)
Flatten(ss) == IF ss = <<>> THEN <<>> ELSE Head(ss) \o Flatten(Tail(ss))

RECURSIVE Repeat(_, _)
Repeat(x, n) == IF n <= 0 THEN <<>> ELSE <<x>> \o Repeat(x, n - 1)

Last(s) == s[Len(s)]

Front(s) == SubSeq(s, 1, Len(s) - 1)

(***************************************************************************)
(* Magnitudes: natural numbers of any size in limbs of four decimal        *)
(* digits (base 10000), least significant limb first, no most significant  *)
(* zero limb.                                                              *)
(***************************************************************************)
RECURSIVE NatToMag(_)
NatToMag(n) == IF n = 0 THEN <<>> ELSE <<n % 10000>> \o NatToMag(n \div 10000)

RECURSIVE MagStrip(_)
MagStrip(m) ==
    IF m = <<>> THEN <<>>
    ELSE IF Last(m) = 0 THEN MagStrip(Front(m)) ELSE m

\* m * k + carry, for k and carry of at most 2^16
RECURSIVE MagMulSmall(_, _, _)
MagMulSmall(m, k, carry) ==
    IF m = <<>> THEN NatToMag(carry)
    ELSE LET v == Head(m) * k + carry
         IN  <<v % 10000>> \o MagMulSmall(Tail(m), k, v \div 10000)

RECURSIVE MagAddC(_, _, _)
MagAddC(a, b, carry) ==
    IF a = <<>> /\ b = <<>> THEN NatToMag(carry)
    ELSE LET x == IF a = <<>> THEN 0 ELSE Head(a)
             y == IF b = <<>> THEN 0 ELSE Head(b)
             v == x + y + carry
         IN  <<v % 10000>> \o MagAddC(IF a = <<>> THEN <<>> ELSE Tail(a),
                                      IF b = <<>> THEN <<>> ELSE Tail(b),
                                      v \div 10000)

MagAdd(a, b) == MagAddC(a, b, 0)

\* -1, 0, 1 as a < b, a = b, a > b
RECURSIVE MagCmp(_, _)
MagCmp(a, b) ==
    IF Len(a) # Len(b) THEN (IF Len(a) < Len(b) THEN -1 ELSE 1)
    ELSE IF a = <<>> THEN 0
    ELSE IF Last(a) # Last(b) THEN (IF Last(a) < Last(b) THEN -1 ELSE 1)
    ELSE MagCmp(Front(a), Front(b))

\* a - b - borrow, for a >= b + borrow; limbs not yet stripped
RECURSIVE MagSubB(_, _, _)
MagSubB(a, b, borrow) ==
    IF a = <<>> THEN <<>>
    ELSE LET y == IF b = <<>> THEN 0 ELSE Head(b)
             v == Head(a) - y - borrow
         IN  <<(v + 10000) % 10000>> \o MagSubB(Tail(a),
                                                IF b = <<>> THEN <<>> ELSE Tail(b),
                                                IF v < 0 THEN 1 ELSE 0)

MagSub(a, b) == MagStrip(MagSubB(a, b, 0))

MagOdd(m) == m # <<>> /\ Head(m) % 2 = 1

\* m divided by d of at most 2^16: [q, r], q not yet stripped
RECURSIVE MagDivModDigits(_, _)
MagDivModDigits(m, d) ==
    IF m = <<>> THEN [q |-> <<>>, r |-> 0]
    ELSE LET above == MagDivModDigits(Tail(m), d)
             v     == above.r * 10000 + Head(m)
         IN  [q |-> <<v \div d>> \o above.q, r |-> v % d]

MagDivMod(m, d) ==
    LET qr == MagDivModDigits(m, d) IN [q |-> MagStrip(qr.q), r |-> qr.r]

PowersOfTen == <<10, 100, 1000, 10000, 100000>>

Pow10(k) == IF k <= 0 THEN 1 ELSE PowersOfTen[k]

PowersOfTwo ==
    <<2, 4, 8, 16, 32, 64, 128, 256, 512, 1024, 2048, 4096, 8192, 16384, 32768, 65536,
      131072, 262144, 524288, 1048576, 2097152, 4194304, 8388608, 16777216,
      33554432, 67108864, 134217728>>

Pow2(k) == IF k <= 0 THEN 1 ELSE PowersOfTwo[k]

\* m * 2^k, sixteen bits at a time
RECURSIVE MagShiftLeft(_, _)
MagShiftLeft(m, k) ==
    IF k <= 0 \/ m = <<>> THEN m
    ELSE IF k >= 16 THEN MagShiftLeft(MagMulSmall(m, Pow2(16), 0), k - 16)
    ELSE MagMulSmall(m, Pow2(k), 0)

Pow2Mag(k) == MagShiftLeft(<<1>>, k)

\* number of binary digits of m, sixteen at a time down to two limbs
RECURSIVE MagBitLen(_)
MagBitLen(m) ==
    IF Len(m) > 2 THEN 16 + MagBitLen(MagDivMod(m, Pow2(16)).q)
    ELSE LET n == IF m = <<>> THEN 0 ELSE IF Len(m) = 1 THEN m[1] ELSE m[1] + 10000 * m[2]
         IN  Cardinality({ k \in 1..27 : Pow2(k - 1) <= n })

(***************************************************************************)
(* m / 2^k rounded to the nearest integer, ties to even: the rounding of   *)
(* IEEE arithmetic and of Python's float formatting.  guard is the bit     *)
(* last shifted out, sticky whether any bit below it was set.              *)
(***************************************************************************)
RECURSIVE MagShiftRightRound(_, _, _, _)
MagShiftRightRound(m, k, guard, sticky) ==
    IF k <= 0
    THEN IF guard /\ (sticky \/ MagOdd(m)) THEN MagAdd(m, <<1>>) ELSE m
    ELSE IF m = <<>>
    THEN MagShiftRightRound(<<>>, 0, FALSE, TRUE)
    ELSE LET step == IF k >= 16 THEN 16 ELSE k
             qr   == MagDivMod(m, Pow2(step))
         IN  MagShiftRightRound(qr.q, k - step, qr.r >= Pow2(step - 1),
                                sticky \/ guard \/ qr.r % Pow2(step - 1) # 0)

RECURSIVE MagMulAcc(_, _)
MagMulAcc(a, b) ==
    IF b = <<>> THEN <<>>
    ELSE MagAdd(MagMulSmall(a, Head(b), 0), <<0>> \o MagMulAcc(a, Tail(b)))

MagMul(a, b) == MagStrip(MagMulAcc(a, b))

(***************************************************************************)
(* Python scalars                                                          *)
(***************************************************************************)
PyInt(neg, mag) == [t |-> "int", neg |-> neg /\ mag # <<>>, mag |-> mag]

SmallInt(n) == PyInt(n < 0, NatToMag(IF n < 0 THEN -n ELSE n))

PyBool(b) == [t |-> "bool", b |-> b]

PyBytes(bs) == [t |-> "bytes", b |-> bs]

PyFloat(cls, neg, mag, exp) ==
    [t |-> "float", cls |-> cls, neg |-> neg, mag |-> mag,
     exp |-> IF cls = "fin" /\ mag # <<>> THEN exp ELSE 0]

NaN == PyFloat("nan", FALSE, <<>>, 0)

Inf(neg) == PyFloat("inf", neg, <<>>, 0)

\* int + int and int * int, exact
IntAdd(a, b) ==
    IF a.neg = b.neg THEN PyInt(a.neg, MagAdd(a.mag, b.mag))
    ELSE IF MagCmp(a.mag, b.mag) >= 0 THEN PyInt(a.neg, MagSub(a.mag, b.mag))
    ELSE PyInt(b.neg, MagSub(b.mag, a.mag))

IntMul(a, b) == PyInt(a.neg # b.neg, MagMul(a.mag, b.mag))

(***************************************************************************)
(* IEEE 754 binary64, the C double behind Python's float: 53 significant   *)
(* bits, least exponent -1074, round to nearest even, overflow to inf.     *)
(***************************************************************************)
Max(a, b) == IF a >= b THEN a ELSE b

Min(a, b) == IF a <= b THEN a ELSE b

RoundDouble(neg, mag, exp) ==
    IF mag = <<>> THEN PyFloat("fin", neg, <<>>, 0)
    ELSE LET bits == IF Len(mag) <= 3 THEN 0 ELSE MagBitLen(mag)
             k    == Max(Max(bits - 53, (-1074) - exp), 0)
             m2   == IF k = 0 THEN mag ELSE MagShiftRightRound(mag, k, FALSE, FALSE)
             e2   == exp + k
         IN  IF m2 # <<>> /\ e2 + 53 + 1 > 1024
                /\ MagBitLen(m2) + e2 > 1024
             THEN Inf(neg)
             ELSE PyFloat("fin", neg, m2, e2)

\* float(i) for an int i; IntTooLarge(i) is its OverflowError
IntToFloat(i) == RoundDouble(i.neg, i.mag, 0)

IntTooLarge(i) == IntToFloat(i).cls = "inf"

IsZero(f) == f.cls = "fin" /\ f.mag = <<>>

FMul(a, b) ==
    IF a.cls = "nan" \/ b.cls = "nan" THEN NaN
    ELSE IF a.cls = "inf" \/ b.cls = "inf"
    THEN IF IsZero(a) \/ IsZero(b) THEN NaN ELSE Inf(a.neg # b.neg)
    ELSE RoundDouble(a.neg # b.neg, MagMul(a.mag, b.mag), a.exp + b.exp)

FAdd(a, b) ==
    IF a.cls = "nan" \/ b.cls = "nan" THEN NaN
    ELSE IF a.cls = "inf" /\ b.cls = "inf"
    THEN IF a.neg = b.neg THEN a ELSE NaN
    ELSE IF a.cls = "inf" THEN a
    ELSE IF b.cls = "inf" THEN b
    ELSE IF IsZero(a) /\ IsZero(b) THEN PyFloat("fin", a.neg /\ b.neg, <<>>, 0)
    ELSE IF IsZero(a) THEN b
    ELSE IF IsZero(b) THEN a
    ELSE LET topA == MagBitLen(a.mag) + a.exp
             topB == MagBitLen(b.mag) + b.exp
             e    == Min(a.exp, b.exp)
             x    == PyInt(a.neg, MagShiftLeft(a.mag, a.exp - e))
             y    == PyInt(b.neg, MagShiftLeft(b.mag, b.exp - e))
             s    == IntAdd(x, y)
         IN  \* an operand below 2^-7 of the other's last place rounds away
             IF topA - topB > 60 THEN a
             ELSE IF topB - topA > 60 THEN b
             ELSE RoundDouble(s.neg, s.mag, e)

(***************************************************************************)
(* Python's * and + on int, bool and float operands.  A bool counts as the *)
(* int 1 or 0; an int meeting a float is converted with float().  The      *)
(* result is [raised, v]: raised names the exception, "" for none.         *)
(***************************************************************************)
AsInt(x) == IF x.t = "bool" THEN SmallInt(IF x.b THEN 1 ELSE 0) ELSE x

Ok(v) == [raised |-> "", v |-> v]

Raise(exc) == [raised |-> exc, v |-> PyBool(FALSE)]

\* the operands of a mixed operation as floats
FloatOperand(x) == IF x.t = "int" THEN IntToFloat(x) ELSE x

MixedOverflow(x, y) ==
    (x.t = "int" /\ IntTooLarge(x)) \/ (y.t = "int" /\ IntTooLarge(y))

PyMul(a, b) ==
    LET x == AsInt(a)
        y == AsInt(b)
    IN  IF x.t = "int" /\ y.t = "int" THEN Ok(IntMul(x, y))
        ELSE IF MixedOverflow(x, y) THEN Raise("OverflowError")
        ELSE Ok(FMul(FloatOperand(x), FloatOperand(y)))

PyAdd(a, b) ==
    LET x == AsInt(a)
        y == AsInt(b)
    IN  IF x.t = "int" /\ y.t = "int" THEN Ok(IntAdd(x, y))
        ELSE IF MixedOverflow(x, y) THEN Raise("OverflowError")
        ELSE Ok(FAdd(FloatOperand(x), FloatOperand(y)))

(***************************************************************************)
(* Text.  A str is its sequence of code points.                            *)
(***************************************************************************)
DigitChar(d) == 48 + d

\* the decimal digits of m, least significant first, no most significant zero
MagDigits(m) ==
    MagStrip([i \in 1..4 * Len(m) |-> (m[(i - 1) \div 4 + 1] \div Pow10((i - 1) % 4)) % 10])

\* decimal digits, least significant first, as text
DigitsText(d) == [i \in 1..Len(d) |-> DigitChar(d[Len(d) + 1 - i])]

MagText(m) == DigitsText(MagDigits(m))

MinusSign == <<45>>

\* str(i) for an int
IntStr(i) ==
    (IF i.neg THEN MinusSign ELSE <<>>) \o (IF i.mag = <<>> THEN <<DigitChar(0)>> ELSE MagText(i.mag))

\* str(b) for a bool: "True" or "False"
BoolStr(b) == IF b THEN <<84, 114, 117, 101>> ELSE <<70, 97, 108, 115, 101>>

HexChar(d) == IF d < 10 THEN 48 + d ELSE 87 + d

\* one byte inside the repr of a bytes object quoted with `quote`
ByteRepr(b, quote) ==
    IF b = quote \/ b = 92 THEN <<92, b>>
    ELSE IF b = 9 THEN <<92, 116>>
    ELSE IF b = 10 THEN <<92, 110>>
    ELSE IF b = 13 THEN <<92, 114>>
    ELSE IF b < 32 \/ b >= 127 THEN <<92, 120, HexChar(b \div 16), HexChar(b % 16)>>
    ELSE <<b>>

\* str(bs) for a bytes object: its repr, b'...'
BytesStr(bs) ==
    LET has(c) == \E i \in 1..Len(bs) : bs[i] = c
        quote  == IF has(39) /\ ~has(34) THEN 34 ELSE 39
    IN  <<98, quote>> \o Flatten([i \in 1..Len(bs) |-> ByteRepr(bs[i], quote)]) \o <<quote>>

(***************************************************************************)
(* f"{x:.{p}f}" for a float x: the exact value of the double rounded to p  *)
(* decimals, ties to even; "nan", "inf", "-inf" for the specials.          *)
(***************************************************************************)
FormatFixed(x, p) ==
    IF x.cls = "nan" THEN <<110, 97, 110>>
    ELSE IF x.cls = "inf" THEN (IF x.neg THEN MinusSign ELSE <<>>) \o <<105, 110, 102>>
    ELSE LET scaled == MagMulSmall(x.mag, Pow10(p), 0)
             n      == IF x.exp >= 0 THEN MagShiftLeft(scaled, x.exp)
                       ELSE MagShiftRightRound(scaled, -x.exp, FALSE, FALSE)
             digits == MagDigits(n)
             padded == digits \o Repeat(0, p + 1 - Len(digits))
             whole  == DigitsText(SubSeq(padded, p + 1, Len(padded)))
             frac   == DigitsText(SubSeq(padded, 1, p))
         IN  (IF x.neg THEN MinusSign ELSE <<>>) \o whole
             \o (IF p > 0 THEN <<46>> \o frac ELSE <<>>)

(***************************************************************************)
(* bytes.decode(): strict UTF-8.  [ok, text]; ok FALSE is the              *)
(* UnicodeDecodeError.                                                     *)
(***************************************************************************)
IsCont(b) == b >= 128 /\ b <= 191

RECURSIVE Utf8Decode(_)
Utf8Decode(bs) ==
    IF bs = <<>> THEN [ok |-> TRUE, text |-> <<>>]
    ELSE LET b1 == bs[1]
             n  == Len(bs)
             need == IF b1 < 128 THEN 1
                     ELSE IF b1 >= 194 /\ b1 <= 223 THEN 2
                     ELSE IF b1 >= 224 /\ b1 <= 239 THEN 3
                     ELSE IF b1 >= 240 /\ b1 <= 244 THEN 4
                     ELSE 0
             lo2 == IF b1 = 224 THEN 160 ELSE IF b1 = 240 THEN 144 ELSE 128
             hi2 == IF b1 = 237 THEN 159 ELSE IF b1 = 244 THEN 143 ELSE 191
             wellFormed ==
                 /\ need > 0
                 /\ n >= need
                 /\ need >= 2 => (bs[2] >= lo2 /\ bs[2] <= hi2)
                 /\ need >= 3 => IsCont(bs[3])
                 /\ need >= 4 => IsCont(bs[4])
             cp == IF need = 1 THEN b1
                   ELSE IF need = 2 THEN (b1 % 32) * 64 + (bs[2] % 64)
                   ELSE IF need = 3 THEN ((b1 % 16) * 64 + (bs[2] % 64)) * 64 + (bs[3] % 64)
                   ELSE (((b1 % 8) * 64 + (bs[2] % 64)) * 64 + (bs[3] % 64)) * 64 + (bs[4] % 64)
         IN  IF ~wellFormed THEN [ok |-> FALSE, text |-> <<>>]
             ELSE LET rest == Utf8Decode(SubSeq(bs, need + 1, n))
                  IN  [ok |-> rest.ok, text |-> IF rest.ok THEN <<cp>> \o rest.text ELSE <<>>]

(***************************************************************************)
(* The struct module.  A format string is a sequence of one-character      *)
(* strings.  Native mode (no prefix, or "@") is that of an LP64            *)
(* little-endian build: native sizes, items aligned to their size.         *)
(***************************************************************************)
Digits == <<"0", "1", "2", "3", "4", "5", "6", "7", "8", "9">>

IsDigit(c) == \E i \in 1..10 : Digits[i] = c

DigitValue(c) == (CHOOSE i \in 1..10 : Digits[i] = c) - 1

IsSpace(c) == c = " "

ByteOrderChars == {"@", "=", "<", ">", "!"}

HasPrefix(fmt) == fmt # <<>> /\ fmt[1] \in ByteOrderChars

IsNative(fmt) == ~HasPrefix(fmt) \/ fmt[1] = "@"

IsBigEndian(fmt) == HasPrefix(fmt) /\ fmt[1] \in {">", "!"}

IntCodes == {"b", "B", "h", "H", "i", "I", "l", "L", "q", "Q"}

SignedCodes == {"b", "h", "i", "l", "q"}

FloatCodes == {"e", "f", "d"}

StandardCodes == {"x", "c", "s", "p", "?"} \cup IntCodes \cup FloatCodes

\* size in bytes of one item of code c
ItemSize(c, native) ==
    IF c \in {"x", "c", "s", "p", "?", "b", "B"} THEN 1
    ELSE IF c \in {"h", "H", "e"} THEN 2
    ELSE IF c \in {"i", "I", "f"} THEN 4
    ELSE IF c \in {"l", "L"} THEN (IF native THEN 8 ELSE 4)
    ELSE 8

(***************************************************************************)
(* The items of a format after its prefix: [ok, err, items], each item     *)
(* [code, num].  ok FALSE is struct.error with message err.                *)
(***************************************************************************)
RECURSIVE ParseCount(_, _)
ParseCount(s, num) ==
    IF s # <<>> /\ IsDigit(s[1]) THEN ParseCount(Tail(s), num * 10 + DigitValue(s[1]))
    ELSE [num |-> num, rest |-> s]

RECURSIVE ParseItems(_)
ParseItems(s) ==
    IF s = <<>> THEN [ok |-> TRUE, err |-> "", items |-> <<>>]
    ELSE IF IsSpace(s[1]) THEN ParseItems(Tail(s))
    ELSE LET counted == IF IsDigit(s[1]) THEN ParseCount(s, 0) ELSE [num |-> 1, rest |-> s]
         IN  IF counted.rest = <<>>
             THEN [ok |-> FALSE, err |-> "repeat count given without format specifier",
                   items |-> <<>>]
             ELSE IF counted.rest[1] \notin StandardCodes
             THEN [ok |-> FALSE, err |-> "bad char in struct format", items |-> <<>>]
             ELSE LET more == ParseItems(Tail(counted.rest))
                  IN  IF ~more.ok THEN more
                      ELSE [ok |-> TRUE, err |-> "",
                            items |-> <<[code |-> counted.rest[1], num |-> counted.num]>>
                                      \o more.items]

ParseFormat(fmt) == ParseItems(IF HasPrefix(fmt) THEN Tail(fmt) ELSE fmt)

\* the offset at or after pos where an item of code c may start
Align(pos, c, native) ==
    LET a == ItemSize(c, native)
    IN  IF native /\ pos % a # 0 THEN pos + a - (pos % a) ELSE pos

RECURSIVE SizeOfItems(_, _, _)
SizeOfItems(items, native, size) ==
    IF items = <<>> THEN size
    ELSE LET it == Head(items)
         IN  SizeOfItems(Tail(items), native,
                         Align(size, it.code, native) + it.num * ItemSize(it.code, native))

\* struct.calcsize(fmt): [ok, err, size]
CalcSize(fmt) ==
    LET parsed == ParseFormat(fmt)
    IN  [ok |-> parsed.ok, err |-> parsed.err,
         size |-> IF parsed.ok THEN SizeOfItems(parsed.items, IsNative(fmt), 0) ELSE 0]

(***************************************************************************)
(* Unpacking.  bs is the bytes of one item, most significant first.        *)
(***************************************************************************)
RECURSIVE BytesToMag(_, _)
BytesToMag(bs, acc) ==
    IF bs = <<>> THEN acc ELSE BytesToMag(Tail(bs), MagMulSmall(acc, 256, Head(bs)))

UnpackUnsigned(bs) == PyInt(FALSE, BytesToMag(bs, <<>>))

\* two's complement
UnpackSigned(bs) ==
    IF bs[1] < 128 THEN UnpackUnsigned(bs)
    ELSE PyInt(TRUE, MagSub(Pow2Mag(8 * Len(bs)), BytesToMag(bs, <<>>)))

ExponentBits(c) == IF c = "e" THEN 5 ELSE IF c = "f" THEN 8 ELSE 11

\* IEEE 754 binary16, binary32 or binary64, as the double of the same value
UnpackFloat(bs, c) ==
    LET ebits   == ExponentBits(c)
        mbits   == 8 * Len(bs) - 1 - ebits
        topBits == 15 - ebits
        v16     == bs[1] * 256 + bs[2]
        neg     == v16 >= 32768
        expo    == (v16 % 32768) \div Pow2(topBits)
        mant    == BytesToMag(SubSeq(bs, 3, Len(bs)), NatToMag(v16 % Pow2(topBits)))
        bias    == Pow2(ebits - 1) - 1
    IN  IF expo = Pow2(ebits) - 1 THEN (IF mant = <<>> THEN Inf(neg) ELSE NaN)
        ELSE IF expo = 0 THEN PyFloat("fin", neg, mant, 1 - bias - mbits)
        ELSE PyFloat("fin", neg, MagAdd(mant, Pow2Mag(mbits)), expo - bias - mbits)

UnpackOne(bs, c, big) ==
    LET be == IF big THEN bs ELSE Reverse(bs)
    IN  IF c = "c" THEN PyBytes(bs)
        ELSE IF c = "?" THEN PyBool(bs[1] # 0)
        ELSE IF c \in FloatCodes THEN UnpackFloat(be, c)
        ELSE IF c \in SignedCodes THEN UnpackSigned(be)
        ELSE UnpackUnsigned(be)

\* the values of one item [code, num] whose bytes start at offset pos
UnpackItem(bytes, pos, it, native, big) ==
    LET size == ItemSize(it.code, native)
    IN  IF it.code = "x" THEN <<>>
        ELSE IF it.code = "s" THEN <<PyBytes(SubSeq(bytes, pos + 1, pos + it.num))>>
        ELSE IF it.code = "p"
        THEN IF it.num = 0 THEN <<PyBytes(<<>>)>>
             ELSE <<PyBytes(SubSeq(bytes, pos + 2,
                                   pos + 1 + Min(bytes[pos + 1], it.num - 1)))>>
        ELSE [k \in 1..it.num |->
                 UnpackOne(SubSeq(bytes, pos + (k - 1) * size + 1, pos + k * size),
                           it.code, big)]

RECURSIVE UnpackItems(_, _, _, _, _)
UnpackItems(bytes, pos, items, native, big) ==
    IF items = <<>> THEN <<>>
    ELSE LET it    == Head(items)
             start == Align(pos, it.code, native)
         IN  UnpackItem(bytes, start, it, native, big)
             \o UnpackItems(bytes, start + it.num * ItemSize(it.code, native),
                            Tail(items), native, big)

\* struct.unpack(fmt, bytes): [ok, err, val], val the tuple of values
Unpack(fmt, bytes) ==
    LET size == CalcSize(fmt)
    IN  IF ~size.ok THEN [ok |-> FALSE, err |-> size.err, val |-> <<>>]
        ELSE IF Len(bytes) # size.size
        THEN [ok |-> FALSE, err |-> "unpack requires a buffer of the format's size",
              val |-> <<>>]
        ELSE [ok |-> TRUE, err |-> "",
              val |-> UnpackItems(bytes, 0, ParseFormat(fmt).items, IsNative(fmt),
                                  IsBigEndian(fmt))]

(***************************************************************************)
(* Configuration: the data types of const.py and the default formats.      *)
(***************************************************************************)
DATA_TYPE_INT == "int"

DATA_TYPE_UINT == "uint"

DATA_TYPE_FLOAT == "float"

DATA_TYPE_STRING == "string"

DATA_TYPE_CUSTOM == "custom"

\* DEFAULT_STRUCT_FORMAT[data_type]: register count -> struct code
DEFAULT_STRUCT_FORMAT(data_type) ==
    IF data_type = DATA_TYPE_INT THEN (1 :> "h" @@ 2 :> "i" @@ 4 :> "q")
    ELSE IF data_type = DATA_TYPE_UINT THEN (1 :> "H" @@ 2 :> "I" @@ 4 :> "Q")
    ELSE (2 :> "f" @@ 4 :> "d")

\* str(n) as format characters, for n >= 0
RECURSIVE DecimalChars(_)
DecimalChars(n) ==
    IF n < 10 THEN <<Digits[n + 1]>> ELSE DecimalChars(n \div 10) \o <<Digits[(n % 10) + 1]>>

(***************************************************************************)
(* async_setup_platform, the register entries: the structure of an entry,  *)
(* [ok, structure]; ok FALSE is the KeyError of the lookup.                *)
(***************************************************************************)
EntryStructure(entry) ==
    IF entry.data_type = DATA_TYPE_STRING
    THEN [ok |-> TRUE, structure |-> DecimalChars(entry.count * 2) \o <<"s">>]
    ELSE IF entry.data_type # DATA_TYPE_CUSTOM
    THEN IF entry.count \in DOMAIN DEFAULT_STRUCT_FORMAT(entry.data_type)
         THEN [ok |-> TRUE,
               structure |-> <<">", DEFAULT_STRUCT_FORMAT(entry.data_type)[entry.count]>>]
         ELSE [ok |-> FALSE, structure |-> <<>>]
    ELSE [ok |-> TRUE, structure |-> entry.structure]

\* a size check that lets a longer structure pass
SizeTooShort(count, size) == count * 2 > size

\* the size check: the entry is skipped when the sizes differ
SizeMismatch(count, size) == count * 2 # size

\* whether the loop body reaches sensors.append for this entry
RegisterEntryAccepted(entry) ==
    LET resolved == EntryStructure(entry)
    IN  /\ resolved.ok
        /\ CalcSize(resolved.structure).ok
        /\ ~SizeMismatch(entry.count, CalcSize(resolved.structure).size)

\* a range check that lets the first bit after the block pass
BitAfterRange(bit_number, words_count) == bit_number > words_count * 16

\* the bit entries: the range check
BitOutOfRange(bit_number, words_count) == bit_number >= words_count * 16

BitEntryAccepted(entry) == ~BitOutOfRange(entry.bit_number, entry.count)

(***************************************************************************)
(* The sensor objects.  _value is None, a str or a bool.                   *)
(***************************************************************************)
None == [k |-> "None", s |-> <<>>, b |-> FALSE]

StrValue(text) == [k |-> "str", s |-> text, b |-> FALSE]

BoolValue(b) == [k |-> "bool", s |-> <<>>, b |-> b]

ModbusRegisterSensor(entry) ==
    [cls |-> "ModbusRegisterSensor", count |-> entry.count, bit_number |-> 0,
     reverse_order |-> entry.reverse_order, scale |-> entry.scale,
     offset |-> entry.offset, precision |-> entry.precision,
     structure |-> EntryStructure(entry).structure, data_type |-> entry.data_type,
     value |-> None, available |-> TRUE]

ModbusBitSensor(entry) ==
    [cls |-> "ModbusBitSensor", count |-> entry.count, bit_number |-> entry.bit_number,
     reverse_order |-> FALSE, scale |-> SmallInt(1), offset |-> SmallInt(0),
     precision |-> 0, structure |-> <<>>, data_type |-> "",
     value |-> None, available |-> TRUE]

\* the first loop: for entry in discovery_info.get(CONF_BIT_SENSORS, [])
RECURSIVE BitSensorLoop(_)
BitSensorLoop(entries) ==
    IF entries = <<>> THEN <<>>
    ELSE (IF BitEntryAccepted(Head(entries)) THEN <<ModbusBitSensor(Head(entries))>>
          ELSE <<>>)
         \o BitSensorLoop(Tail(entries))

\* the second loop: for entry in discovery_info.get(CONF_SENSORS, [])
RECURSIVE RegisterSensorLoop(_)
RegisterSensorLoop(entries) ==
    IF entries = <<>> THEN <<>>
    ELSE (IF RegisterEntryAccepted(Head(entries))
          THEN <<ModbusRegisterSensor(Head(entries))>>
          ELSE <<>>)
         \o RegisterSensorLoop(Tail(entries))

\* the list handed to async_add_entities: bit sensors, then register sensors
SetupSensors(info) == BitSensorLoop(info.bit_sensors) \o RegisterSensorLoop(info.sensors)

(***************************************************************************)
(* ModbusRegisterSensor.update, after the read: the decode.                *)
(***************************************************************************)
\* the two bytes least significant first
ToBytesLittleEndian(x) == <<x % 256, x \div 256>>

\* x.to_bytes(2, byteorder="big")
ToBytes(x) == <<x \div 256, x % 256>>

\* b"".join(x.to_bytes(2, byteorder="big") for x in registers)
ByteString(registers) == Flatten([i \in 1..Len(registers) |-> ToBytes(registers[i])])

\* a reversal of the bytes, not of the registers
ByteReversedRegisters(registers, reverse_order) ==
    IF reverse_order
    THEN Reverse([i \in 1..Len(registers) |->
                     (registers[i] % 256) * 256 + registers[i] \div 256])
    ELSE registers

\* the order of the registers that are joined
OrderedRegisters(registers, reverse_order) ==
    IF reverse_order THEN Reverse(registers) ELSE registers

\* str(v) of an unpacked value
PyStr(v) ==
    CASE v.t = "int"   -> IntStr(v)
      [] v.t = "bool"  -> BoolStr(v.b)
      [] v.t = "bytes" -> BytesStr(v.b)

RECURSIVE JoinComma(_)
JoinComma(texts) ==
    IF texts = <<>> THEN <<>>
    ELSE IF Len(texts) = 1 THEN texts[1]
    ELSE texts[1] \o <<44>> \o JoinComma(Tail(texts))

\* isinstance(val, (float, int)): a bool is an int
IsNumber(val) == val.t \in {"float", "int", "bool"}

\* the offset added before the scaling
TransformOffsetFirst(scale, val, offset) ==
    LET sum == PyAdd(val, offset)
    IN  IF sum.raised # "" THEN sum ELSE PyMul(scale, sum.v)

\* self._scale * val + self._offset: [raised, v]
Transform(scale, val, offset) ==
    LET product == PyMul(scale, val)
    IN  IF product.raised # "" THEN product ELSE PyAdd(product.v, offset)

\* the string for a number val: [raised, text]
NumberText(val, precision) ==
    IF val.t = "int" /\ precision = 0 THEN [raised |-> "", text |-> IntStr(val)]
    ELSE IF val.t = "int" /\ IntTooLarge(val) THEN [raised |-> "OverflowError", text |-> <<>>]
    ELSE [raised |-> "",
          text |-> FormatFixed(IF val.t = "int" THEN IntToFloat(val) ELSE val, precision)]

\* the branch for exactly one unpacked value
SingleValueText(self, val) ==
    IF IsNumber(val)
    THEN LET transformed == Transform(self.scale, val, self.offset)
         IN  IF transformed.raised # "" THEN [raised |-> transformed.raised, text |-> <<>>]
             ELSE NumberText(transformed.v, self.precision)
    ELSE [raised |-> "", text |-> PyStr(val)]

\* several values, each scaled and formatted, joined by commas
MultiValueScaledText(self, val) ==
    [raised |-> "",
     text |-> JoinComma([i \in 1..Len(val) |-> SingleValueText(self, val[i]).text])]

\* the branch for more than one unpacked value
MultiValueText(self, val) ==
    [raised |-> "", text |-> JoinComma([i \in 1..Len(val) |-> PyStr(val[i])])]

\* registers as joined (after any reversal): [raised, text], the new _value
DecodeRegisters(self, registers) ==
    LET byte_string == ByteString(registers)
    IN  IF self.data_type = DATA_TYPE_STRING
        THEN LET decoded == Utf8Decode(byte_string)
             IN  IF decoded.ok THEN [raised |-> "", text |-> decoded.text]
                 ELSE [raised |-> "UnicodeDecodeError", text |-> <<>>]
        ELSE LET unpacked == Unpack(self.structure, byte_string)
                 val      == unpacked.val
             IN  IF ~unpacked.ok THEN [raised |-> "struct.error", text |-> <<>>]
                 ELSE IF Len(val) > 1
                 THEN MultiValueText(self, val)
                 ELSE IF Len(val) = 0 THEN [raised |-> "IndexError", text |-> <<>>]
                 ELSE SingleValueText(self, val[1])

(***************************************************************************)
(* ModbusBitSensor.update, after the read.                                 *)
(***************************************************************************)
RECURSIVE BitAnd(_, _)
BitAnd(a, b) ==
    IF a = 0 \/ b = 0 THEN 0
    ELSE (a % 2) * (b % 2) + 2 * BitAnd(a \div 2, b \div 2)

\* [raised, b], the new _value
DecodeBit(self, registers) ==
    LET register_index    == self.bit_number \div 16
        register_bit_mask == Pow2(self.bit_number % 16)
    IN  IF register_index >= Len(registers) THEN [raised |-> "IndexError", b |-> FALSE]
        ELSE [raised |-> "",
              b |-> BitAnd(registers[register_index + 1], register_bit_mask) # 0]

(***************************************************************************)
(* Bounds: the configurations set up and the register blocks the hub       *)
(* returns.  Registers are 16-bit words, in decimal below.                 *)
(***************************************************************************)
\* the largest bit_number configured for a bit sensor
MaxBit == 33

\* consecutive failed polls counted per sensor
MaxFails == 2

Half == PyFloat("fin", FALSE, <<5>>, -1)

Quarter == PyFloat("fin", FALSE, <<1>>, -2)

\* scale, offset, precision
Transforms ==
    { [scale |-> SmallInt(1),  offset |-> SmallInt(0), precision |-> 0],
      [scale |-> SmallInt(10), offset |-> SmallInt(5), precision |-> 1],
      [scale |-> Half,         offset |-> SmallInt(0), precision |-> 0],
      [scale |-> SmallInt(1),  offset |-> Quarter,     precision |-> 2],
      [scale |-> SmallInt(-2), offset |-> SmallInt(3), precision |-> 0] }

\* count, data_type, structure: the default formats, hits and misses
TableKinds ==
    { [count |-> c, data_type |-> t, structure |-> <<>>] :
        c \in 1..4, t \in {DATA_TYPE_INT, DATA_TYPE_UINT, DATA_TYPE_FLOAT} }

StringKinds ==
    { [count |-> c, data_type |-> DATA_TYPE_STRING, structure |-> <<>>] : c \in 1..3 }

Custom(count, structure) ==
    [count |-> count, data_type |-> DATA_TYPE_CUSTOM, structure |-> structure]

CustomKinds ==
    { Custom(1, <<">", "H">>),       Custom(2, <<">", "H", "H">>),
      Custom(1, <<">", "x", "?">>),  Custom(1, <<">", "2", "s">>),
      Custom(1, <<">", "?", "B">>),  Custom(1, <<">", "2", "x">>),
      Custom(1, <<">", "z">>),       Custom(1, <<">", "2">>),
      Custom(1, <<">", "I">>),       Custom(2, <<">", "H">>),
      Custom(1, <<">", "e">>),       Custom(1, <<"<", "H">>),
      Custom(1, <<"B", "B">>),       Custom(2, <<">", "h", "H">>),
      Custom(2, <<"x", "h">>),        Custom(1, <<">", "s", "B">>) }

RegisterEntries ==
    { [count |-> k.count, data_type |-> k.data_type, structure |-> k.structure,
       reverse_order |-> r, scale |-> t.scale, offset |-> t.offset,
       precision |-> t.precision] :
        k \in TableKinds \cup StringKinds \cup CustomKinds, r \in BOOLEAN, t \in Transforms }

BitEntries == { [count |-> c, bit_number |-> b] : c \in 1..2, b \in 0..MaxBit }

PlainEntry(count, data_type, structure, reverse_order) ==
    [count |-> count, data_type |-> data_type, structure |-> structure,
     reverse_order |-> reverse_order, scale |-> SmallInt(1), offset |-> SmallInt(0),
     precision |-> 0]

TenTimes == [scale |-> SmallInt(10), offset |-> SmallInt(5), precision |-> 1]

Scaled(entry, t) ==
    [entry EXCEPT !.scale = t.scale, !.offset = t.offset, !.precision = t.precision]

OnlyRegister(e) == [bit_sensors |-> <<>>, sensors |-> <<e>>]

OnlyBit(e) == [bit_sensors |-> <<e>>, sensors |-> <<>>]

\* discovery_info of the sensors polled again and again: one entry, or several
DiscoveryInfos ==
    { OnlyBit(e) : e \in BitEntries }
    \cup { OnlyRegister(PlainEntry(k.count, k.data_type, k.structure, r)) :
             k \in { [count |-> 1, data_type |-> DATA_TYPE_STRING, structure |-> <<>>],
                     [count |-> 2, data_type |-> DATA_TYPE_UINT, structure |-> <<>>],
                     [count |-> 3, data_type |-> DATA_TYPE_INT, structure |-> <<>>],
                     Custom(2, <<">", "H", "H">>), Custom(3, <<">", "6", "s">>),
                     Custom(1, <<">", "I">>) },
             r \in BOOLEAN }
    \cup { OnlyRegister(Scaled(PlainEntry(1, DATA_TYPE_INT, <<>>, FALSE), TenTimes)),
           OnlyRegister(PlainEntry(2, DATA_TYPE_FLOAT, <<>>, FALSE)),
           OnlyRegister(PlainEntry(4, DATA_TYPE_INT, <<>>, TRUE)),
           OnlyRegister(PlainEntry(1, DATA_TYPE_CUSTOM, <<">", "x", "?">>, FALSE)),
           OnlyRegister(PlainEntry(1, DATA_TYPE_CUSTOM, <<">", "2", "x">>, FALSE)),
           OnlyRegister(PlainEntry(1, DATA_TYPE_CUSTOM, <<">", "z">>, FALSE)),
           [bit_sensors |-> <<>>, sensors |-> <<>>],
           [bit_sensors |-> <<[count |-> 1, bit_number |-> 16],
                              [count |-> 2, bit_number |-> 17]>>,
            sensors     |-> <<PlainEntry(3, DATA_TYPE_UINT, <<>>, FALSE),
                              PlainEntry(2, DATA_TYPE_CUSTOM, <<">", "H", "H">>, TRUE)>>] }

\* entries that are skipped among entries that are added
MixedEntries ==
    <<PlainEntry(3, DATA_TYPE_INT, <<>>, FALSE),
      PlainEntry(1, DATA_TYPE_CUSTOM, <<">", "z">>, FALSE),
      PlainEntry(1, DATA_TYPE_UINT, <<>>, FALSE),
      PlainEntry(1, DATA_TYPE_CUSTOM, <<">", "I">>, TRUE),
      Scaled(PlainEntry(2, DATA_TYPE_CUSTOM, <<">", "H", "H">>, TRUE), TenTimes)>>

\* discovery_info of the sensors polled once: every entry alone, and one list
FirstDiscoveryInfos ==
    { OnlyRegister(e) : e \in RegisterEntries } \cup { OnlyBit(e) : e \in BitEntries }
    \cup { [bit_sensors |-> <<[count |-> 1, bit_number |-> 16]>>, sensors |-> MixedEntries] }

\* the register blocks of `count` words the hub returns, any poll
Blocks(count) ==
    IF count = 1
    THEN { <<0>>, <<1>>, <<2>>, <<42>>, <<16706>>, <<65535>> }
    ELSE IF count = 2
    THEN { <<0, 2>>, <<2, 0>>, <<7, 9>>, <<9, 7>>, <<65535, 65535>>,
           <<16968, 0>>, <<0, 16968>> }
    ELSE IF count = 3
    THEN { <<1, 2, 3>>, <<3, 2, 1>> }
    ELSE { <<0, 0, 0, 42>>, <<42, 0, 0, 0>> }

\* the register blocks of the first poll, a wider choice
FirstBlocks(count) ==
    IF count = 1
    THEN { <<0>>, <<1>>, <<2>>, <<3>>, <<7>>, <<42>>, <<256>>, <<16706>>, <<32768>>,
           <<65535>>, <<50089>>, <<15360>>, <<32256>>, <<31744>>, <<10023>> }
    ELSE IF count = 2
    THEN { <<0, 2>>, <<7, 9>>, <<0, 42>>, <<0, 3>>, <<1, 0>>, <<65535, 65535>>,
           <<32768, 0>>, <<32704, 0>>, <<32640, 0>>, <<65408, 0>>, <<16256, 0>>,
           <<16457, 4059>>, <<15872, 0>>, <<16416, 0>>, <<49184, 0>>,
           <<16706, 17220>>, <<65, 50089>>, <<49985, 0>>, <<127, 65535>> }
    ELSE IF count = 3
    THEN { <<16706, 17220, 17734>>, <<57986, 44097, 66>>, <<65535, 0, 0>>,
           <<1, 2, 3>>, <<0, 0, 0>> }
    ELSE { <<0, 0, 0, 42>>, <<0, 0, 0, 3>>, <<65535, 65535, 65535, 65535>>,
           <<32768, 0, 0, 0>>, <<32767, 65535, 65535, 65535>>, <<16368, 0, 0, 0>>,
           <<16393, 8699, 21572, 11544>>, <<32752, 0, 0, 0>>,
           <<1, 2, 3, 4>>, <<16356, 0, 0, 0>> }

(***************************************************************************)
(* State.                                                                  *)
(*   discovery_info  the configuration handed to async_setup_platform      *)
(*   pc              "setup" before async_setup_platform has run           *)
(*   sensors         the entities added, in the order of the list          *)
(*   read_result     the registers list of the ReadResult object the hub   *)
(*                   returned last: a hub that keeps its result, as the    *)
(*                   mocked client of the tests does, returns this object  *)
(*                   again                                                 *)
(*   last            the last update(): the sensor, what the read gave,    *)
(*                   the registers as the hub returned them, and the       *)
(*                   exception that left update(), "" for none             *)
(*   fails           per sensor, the failed reads since the last read      *)
(*                   that succeeded                                        *)
(***************************************************************************)
VARIABLES discovery_info, pc, sensors, read_result, last, fails

vars == <<discovery_info, pc, sensors, read_result, last, fails>>

NoUpdate == [idx |-> 0, outcome |-> "", registers |-> <<>>, raised |-> "", same |-> FALSE]

NoResult == [has |-> FALSE, registers |-> <<>>]

Init ==
    /\ discovery_info \in DiscoveryInfos
    /\ pc = "setup"
    /\ sensors = <<>>
    /\ read_result = NoResult
    /\ last = NoUpdate
    /\ fails = <<>>

\* async_setup_platform
Setup ==
    /\ pc = "setup"
    /\ pc' = "running"
    /\ sensors' = SetupSensors(discovery_info)
    /\ fails' = [i \in 1..Len(SetupSensors(discovery_info)) |-> 0]
    /\ UNCHANGED <<discovery_info, read_result, last>>

(***************************************************************************)
(* What a read gives: it raises ConnectionException, returns an            *)
(* ExceptionResponse or ModbusException, or returns a ReadResult whose     *)
(* registers are `count` words: a new object, or the object returned last. *)
(***************************************************************************)
Reads(count, blocks) ==
    { [outcome |-> o, registers |-> <<>>, same |-> FALSE] :
        o \in {"ConnectionException", "ExceptionResponse"} }
    \cup { [outcome |-> "ReadResult", registers |-> b, same |-> FALSE] : b \in blocks }
    \cup { [outcome |-> "ReadResult", registers |-> read_result.registers, same |-> TRUE] :
             x \in IF read_result.has /\ Len(read_result.registers) = count THEN {1} ELSE {} }

\* a failed read that also forgets the value
UnavailableForgetting(self) == [self EXCEPT !.available = FALSE, !.value = None]

\* the fields of a sensor after a read that failed
Unavailable(self) == [self EXCEPT !.available = FALSE]

\* the poll bookkeeping common to both sensors
Polled(i, read, raised, registersAfter) ==
    /\ last' = [idx |-> i, outcome |-> read.outcome, registers |-> read.registers,
                raised |-> raised, same |-> read.same]
    /\ read_result' = IF read.outcome = "ReadResult"
                      THEN [has |-> TRUE, registers |-> registersAfter]
                      ELSE read_result
    /\ fails' = [fails EXCEPT ![i] = IF read.outcome = "ReadResult" THEN 0
                                     ELSE Min(fails[i] + 1, MaxFails)]
    /\ UNCHANGED <<discovery_info, pc>>

\* registers.reverse() reverses the list of the result object itself
RegistersAfterUpdate(self, registers) == OrderedRegisters(registers, self.reverse_order)

\* ModbusRegisterSensor.update, the hub choosing among `blocks`
RegisterPoll(i, blocks) ==
    /\ pc = "running"
    /\ sensors[i].cls = "ModbusRegisterSensor"
    /\ \E read \in Reads(sensors[i].count, blocks) :
          IF read.outcome # "ReadResult"
          THEN /\ sensors' = [sensors EXCEPT ![i] = Unavailable(sensors[i])]
               /\ Polled(i, read, "", <<>>)
          ELSE LET registers == RegistersAfterUpdate(sensors[i], read.registers)
                   decoded   == DecodeRegisters(sensors[i], registers)
               IN  /\ sensors' = IF decoded.raised # "" THEN sensors
                                 ELSE [sensors EXCEPT ![i].value = StrValue(decoded.text),
                                                      ![i].available = TRUE]
                   /\ Polled(i, read, decoded.raised, registers)

\* ModbusBitSensor.update, the hub choosing among `blocks`
BitPoll(i, blocks) ==
    /\ pc = "running"
    /\ sensors[i].cls = "ModbusBitSensor"
    /\ \E read \in Reads(sensors[i].count, blocks) :
          IF read.outcome # "ReadResult"
          THEN /\ sensors' = [sensors EXCEPT ![i] = Unavailable(sensors[i])]
               /\ Polled(i, read, "", <<>>)
          ELSE LET decoded == DecodeBit(sensors[i], read.registers)
               IN  /\ sensors' = IF decoded.raised # "" THEN sensors
                                 ELSE [sensors EXCEPT ![i].value = BoolValue(decoded.b),
                                                      ![i].available = TRUE]
                   /\ Polled(i, read, decoded.raised, read.registers)

RegisterUpdate(i) == RegisterPoll(i, Blocks(sensors[i].count))

BitUpdate(i) == BitPoll(i, Blocks(sensors[i].count))

Next ==
    \/ Setup
    \/ \E i \in 1..Len(sensors) : RegisterUpdate(i)
    \/ \E i \in 1..Len(sensors) : BitUpdate(i)

Spec == Init /\ [][Next]_vars

(***************************************************************************)
(* The first poll after setup, over every entry and the wider blocks.      *)
(***************************************************************************)
FirstInit ==
    /\ discovery_info \in FirstDiscoveryInfos
    /\ pc = "setup"
    /\ sensors = <<>>
    /\ read_result = NoResult
    /\ last = NoUpdate
    /\ fails = <<>>

FirstRegisterUpdate(i) == last.idx = 0 /\ RegisterPoll(i, FirstBlocks(sensors[i].count))

FirstBitUpdate(i) == last.idx = 0 /\ BitPoll(i, FirstBlocks(sensors[i].count))

FirstNext ==
    \/ Setup
    \/ \E i \in 1..Len(sensors) : FirstRegisterUpdate(i)
    \/ \E i \in 1..Len(sensors) : FirstBitUpdate(i)

FirstSpec == FirstInit /\ [][FirstNext]_vars

(***************************************************************************)
(* Properties.  `last` describes the latest update(): the sensor polled,   *)
(* what the read gave and the block as the hub returned it.                *)
(***************************************************************************)
FailedReads == {"ConnectionException", "ExceptionResponse"}

IsRegisterSensor(self) == self.cls = "ModbusRegisterSensor"

IsBitSensor(self) == self.cls = "ModbusBitSensor"

\* what decoding `registers`, as the hub returned them, gives for the sensor
Decoding(self, registers) ==
    IF IsRegisterSensor(self)
    THEN LET d == DecodeRegisters(self, OrderedRegisters(registers, self.reverse_order))
         IN  [raised |-> d.raised, value |-> StrValue(d.text)]
    ELSE LET d == DecodeBit(self, registers)
         IN  [raised |-> d.raised, value |-> BoolValue(d.b)]

\* C1: a poll whose read raises the connectivity failure, or returns a protocol
\* exception result, ends with the polled sensor (register or bit, available or not
\* before) unavailable and its value what it was before the poll; so after any
\* number of failed polls in a row the value is still the one left by the last
\* successful poll, or the initial None.
C1_FailedPollKeepsValue ==
    [][(pc = "running" /\ last'.outcome \in FailedReads)
          => /\ sensors'[last'.idx].value = sensors[last'.idx].value
             /\ ~sensors'[last'.idx].available]_vars

\* a bit sensor and a register sensor, each holding a decoded value through
\* MaxFails failed polls in a row
C1_Witness ==
    /\ Len(sensors) = 2
    /\ IsBitSensor(sensors[1]) /\ IsRegisterSensor(sensors[2])
    /\ \A i \in 1..2 : /\ fails[i] = MaxFails
                        /\ sensors[i].value # None
                        /\ ~sensors[i].available

\* C2: a poll whose read succeeds ends with the polled sensor available and its
\* value the decoding of the block that same poll returned, whatever came before.
C2_SuccessfulPollDecodes ==
    (pc = "running" /\ last.outcome = "ReadResult")
       => LET self == sensors[last.idx]
              d    == Decoding(self, last.registers)
          IN  d.raised = "" /\ self.available /\ self.value = d.value

\* C2 holds of the polls whose decode raises nothing
C2_WhenDecodeReturns ==
    (pc = "running" /\ last.outcome = "ReadResult" /\ last.raised = "")
       => LET self == sensors[last.idx]
              d    == Decoding(self, last.registers)
          IN  d.raised = "" /\ self.available /\ self.value = d.value

\* a successful read, after failed polls, that leaves the sensor unavailable with
\* its old value: the decode raised
C2_StaleAfterSuccessfulRead ==
    /\ pc = "running" /\ last.outcome = "ReadResult" /\ last.raised # ""
    /\ ~sensors[last.idx].available
    /\ sensors[last.idx].value # None

\* C3: once a register sensor is set up, every poll whose read returns a block of
\* count words decodes without error and ends available with the value updated.
C3_DecodeNeverFails ==
    (pc = "running" /\ last.outcome = "ReadResult" /\ IsRegisterSensor(sensors[last.idx])
        /\ Len(last.registers) = sensors[last.idx].count)
       => last.raised = "" /\ sensors[last.idx].available /\ sensors[last.idx].value # None

\* the decode of a string sensor raising UnicodeDecodeError
C3_StringDecodeRaises ==
    /\ pc = "running" /\ last.outcome = "ReadResult"
    /\ sensors[last.idx].data_type = DATA_TYPE_STRING
    /\ last.raised = "UnicodeDecodeError"

\* the fixed format table of the specification: data kind, word count, format
FormatTable ==
    { <<DATA_TYPE_INT, 1, "h">>,  <<DATA_TYPE_INT, 2, "i">>,  <<DATA_TYPE_INT, 4, "q">>,
      <<DATA_TYPE_UINT, 1, "H">>, <<DATA_TYPE_UINT, 2, "I">>, <<DATA_TYPE_UINT, 4, "Q">>,
      <<DATA_TYPE_FLOAT, 2, "f">>, <<DATA_TYPE_FLOAT, 4, "d">> }

FormatResolves(entry) ==
    \/ entry.data_type \in {DATA_TYPE_STRING, DATA_TYPE_CUSTOM}
    \/ \E row \in FormatTable : row[1] = entry.data_type /\ row[2] = entry.count

ResolvedFormat(entry) ==
    IF entry.data_type = DATA_TYPE_STRING THEN DecimalChars(entry.count * 2) \o <<"s">>
    ELSE IF entry.data_type = DATA_TYPE_CUSTOM THEN entry.structure
    ELSE LET row == CHOOSE row \in FormatTable :
                        row[1] = entry.data_type /\ row[2] = entry.count
         IN  <<">", row[3]>>

\* the format resolves, its byte size can be computed and is count * 2
ShouldBeAdded(entry) ==
    /\ FormatResolves(entry)
    /\ CalcSize(ResolvedFormat(entry)).ok
    /\ CalcSize(ResolvedFormat(entry)).size = entry.count * 2

\* the register sensor is the one constructed from the entry
BuiltFrom(self, entry) ==
    /\ IsRegisterSensor(self)
    /\ self.count = entry.count /\ self.data_type = entry.data_type
    /\ self.structure = ResolvedFormat(entry)
    /\ self.reverse_order = entry.reverse_order
    /\ self.scale = entry.scale /\ self.offset = entry.offset
    /\ self.precision = entry.precision

\* C4: after setup the register sensors are, in order, the entries whose format
\* resolves (string always, int/uint/float when the pair is in the format table,
\* custom the given format) with a computable byte size equal to count * 2, and no
\* others; so every register sensor has byte size = count * 2, and an entry with a
\* table miss, a malformed format or a size mismatch is not constructed and never
\* polled (only the sensors of the list are polled).
C4_AddedIffResolvedAndSized ==
    pc = "running"
       => LET added  == SelectSeq(sensors, IsRegisterSensor)
              wanted == SelectSeq(discovery_info.sensors, ShouldBeAdded)
          IN  /\ Len(added) = Len(wanted)
              /\ \A k \in 1..Len(added) :
                     /\ BuiltFrom(added[k], wanted[k])
                     /\ CalcSize(added[k].structure).ok
                     /\ CalcSize(added[k].structure).size = added[k].count * 2
              /\ last.idx \in 0..Len(sensors)

\* the list of five entries: the table miss, the malformed format and the size
\* mismatch are skipped, the two others are sensors, and the second one is polled
C4_Witness ==
    /\ pc = "running"
    /\ discovery_info.sensors = MixedEntries
    /\ Len(sensors) = 2
    /\ BuiltFrom(sensors[1], MixedEntries[3]) /\ BuiltFrom(sensors[2], MixedEntries[5])
    /\ last.idx = 2 /\ last.outcome = "ReadResult" /\ sensors[2].value # None

\* bit k (0 the least significant) of the 16-bit word w
BitOfWord(w, k) == (w \div Pow2(k)) % 2 = 1

\* C5: a bit entry with bit_number >= count * 16 is skipped at setup and never
\* polled; every bit sensor set up indexes a word inside its block, and every poll
\* of it whose read succeeds raises nothing and sets the value to the boolean
\* (block[bit_number div 16] & (1 << (bit_number mod 16))) != 0.
C5_BitRangeAndExtraction ==
    pc = "running"
       => LET added  == SelectSeq(sensors, IsBitSensor)
              InRange(entry) == entry.bit_number < entry.count * 16
              wanted == SelectSeq(discovery_info.bit_sensors, InRange)
          IN  /\ Len(added) = Len(wanted)
              /\ \A k \in 1..Len(added) :
                     /\ added[k].bit_number = wanted[k].bit_number
                     /\ added[k].count = wanted[k].count
                     /\ added[k].bit_number \div 16 < added[k].count
              /\ (last.outcome = "ReadResult" /\ IsBitSensor(sensors[last.idx]))
                    => LET self == sensors[last.idx]
                           word == last.registers[self.bit_number \div 16 + 1]
                       IN  /\ last.raised = ""
                           /\ self.available
                           /\ self.value = BoolValue(BitOfWord(word, self.bit_number % 16))

\* bit_number 17 of the words [0x0000, 0x0002] is set
C5_Witness ==
    /\ pc = "running" /\ last.outcome = "ReadResult"
    /\ IsBitSensor(sensors[last.idx])
    /\ sensors[last.idx].bit_number = 17
    /\ last.registers = <<0, 2>>
    /\ sensors[last.idx].value = BoolValue(TRUE)

\* what struct.unpack gave in the latest poll of a register sensor
LastUnpacked ==
    LET self == sensors[last.idx]
    IN  Unpack(self.structure,
               ByteString(IF self.reverse_order THEN Reverse(last.registers)
                          ELSE last.registers))

\* the latest poll read a block for a register sensor that is not a string sensor,
\* and the unpack gave `n` values, or more when `orMore`
UnpackedValues(n, orMore) ==
    /\ pc = "running" /\ last.outcome = "ReadResult"
    /\ IsRegisterSensor(sensors[last.idx])
    /\ sensors[last.idx].data_type # DATA_TYPE_STRING
    /\ LastUnpacked.ok
    /\ IF orMore THEN Len(LastUnpacked.val) >= n ELSE Len(LastUnpacked.val) = n

\* the text of a scalar that is not a number: True or False, or the bytes literal
CanonicalText(v) == IF v.t = "bool" THEN BoolStr(v.b) ELSE BytesStr(v.b)

\* C6: when the unpack of a register sensor that is not a string sensor gives one
\* scalar that is a boolean or bytes, the value is the text of that scalar (True or
\* False for a boolean), with scale and offset not applied, whatever scale, offset
\* and precision are.
C6_NonNumericUntransformed ==
    (UnpackedValues(1, FALSE) /\ LastUnpacked.val[1].t \in {"bool", "bytes"})
       => /\ last.raised = ""
          /\ sensors[last.idx].value = StrValue(CanonicalText(LastUnpacked.val[1]))

\* C6 holds of the scalars that are bytes
C6_BytesUntransformed ==
    (UnpackedValues(1, FALSE) /\ LastUnpacked.val[1].t = "bytes")
       => /\ last.raised = ""
          /\ sensors[last.idx].value = StrValue(CanonicalText(LastUnpacked.val[1]))

\* the boolean True, unpacked by ">x?" with scale 10, offset 5 and precision 1,
\* decodes to "15.0"
C6_BooleanScaled ==
    /\ UnpackedValues(1, FALSE)
    /\ LastUnpacked.val[1] = PyBool(TRUE)
    /\ sensors[last.idx].scale = SmallInt(10) /\ sensors[last.idx].offset = SmallInt(5)
    /\ sensors[last.idx].precision = 1
    /\ sensors[last.idx].value = StrValue(<<49, 53, 46, 48>>)

\* the text of one raw scalar of several: the decimal text of an integer, True or
\* False for a boolean, the bytes literal for bytes
ScalarText(v) ==
    IF v.t = "int" THEN IntStr(v) ELSE CanonicalText(v)

\* C7 as amended: when the unpack gives two or more scalars, the value is the text
\* of each raw scalar in unpack order (the decimal text of an integer, True or False
\* for a boolean, the bytes literal for bytes), joined by commas, whatever scale,
\* offset and precision are.
C7_RawScalarsJoined ==
    UnpackedValues(2, TRUE)
       => /\ last.raised = ""
          /\ sensors[last.idx].value =
                StrValue(JoinComma([i \in 1..Len(LastUnpacked.val) |->
                                       ScalarText(LastUnpacked.val[i])]))

\* C7 as stated: every one of the scalars is given as its decimal text.
C7_DecimalTextsJoined ==
    UnpackedValues(2, TRUE)
       => /\ last.raised = ""
          /\ \A i \in 1..Len(LastUnpacked.val) : IsNumber(LastUnpacked.val[i])
          /\ sensors[last.idx].value =
                StrValue(JoinComma([i \in 1..Len(LastUnpacked.val) |->
                                       IntStr(AsInt(LastUnpacked.val[i]))]))

\* the unsigned words 7 and 9 give "7,9" with scale 10, offset 5 and precision 1
C7_Witness ==
    /\ UnpackedValues(2, FALSE)
    /\ LastUnpacked.val = <<SmallInt(7), SmallInt(9)>>
    /\ sensors[last.idx].scale = SmallInt(10) /\ sensors[last.idx].offset = SmallInt(5)
    /\ sensors[last.idx].precision = 1
    /\ sensors[last.idx].value = StrValue(<<55, 44, 57>>)

\* an optional minus sign, one digit or more and, for p > 0, a point and p digits
IsFixedPoint(text, p) ==
    LET body  == IF text # <<>> /\ text[1] = 45 THEN Tail(text) ELSE text
        whole == Len(body) - (IF p > 0 THEN p + 1 ELSE 0)
    IN  /\ whole >= 1
        /\ \A i \in 1..whole : body[i] \in 48..57
        /\ p > 0 => /\ body[whole + 1] = 46
                    /\ \A i \in (whole + 2)..Len(body) : body[i] \in 48..57

\* the latest poll unpacked one scalar that is an int or a float
UnpackedNumber ==
    UnpackedValues(1, FALSE) /\ LastUnpacked.val[1].t \in {"int", "float"}

AllIntegers(self, scalar) ==
    scalar.t = "int" /\ self.scale.t = "int" /\ self.offset.t = "int"

\* scale * scalar + offset as a double
TransformedDouble(self, scalar) ==
    FloatOperand(PyAdd(PyMul(self.scale, scalar).v, self.offset).v)

NonFiniteText(x) ==
    IF x.cls = "nan" THEN <<110, 97, 110>>
    ELSE IF x.neg THEN <<45, 105, 110, 102>> ELSE <<105, 110, 102>>

HasExample(self, scalar, scale, offset, precision) ==
    /\ LastUnpacked.val[1] = SmallInt(scalar)
    /\ self.scale = SmallInt(scale) /\ self.offset = SmallInt(offset)
    /\ self.precision = precision

\* C8 as amended: for one numeric scalar the value is the text of scale * scalar +
\* offset: the plain decimal string of the integer when scalar, scale and offset are
\* integers and precision is 0; otherwise, when that number as a double is finite,
\* its fixed-point string with exactly `precision` digits after the point; and when
\* it is not finite, "nan", "inf" or "-inf".  42 gives "42" with scale 1, offset 0,
\* precision 0, and 3 gives "35.0" with scale 10, offset 5, precision 1.
C8_TransformedText ==
    UnpackedNumber
       => LET self   == sensors[last.idx]
              scalar == LastUnpacked.val[1]
              text   == self.value.s
              x      == TransformedDouble(self, scalar)
          IN  /\ last.raised = "" /\ self.value.k = "str"
              /\ IF AllIntegers(self, scalar) /\ self.precision = 0
                 THEN /\ text = IntStr(IntAdd(IntMul(self.scale, scalar), self.offset))
                      /\ IsFixedPoint(text, 0)
                 ELSE IF x.cls = "fin"
                 THEN text = FormatFixed(x, self.precision) /\ IsFixedPoint(text, self.precision)
                 ELSE text = NonFiniteText(x)
              /\ HasExample(self, 42, 1, 0, 0) => text = <<52, 50>>
              /\ HasExample(self, 3, 10, 5, 1) => text = <<51, 53, 46, 48>>

\* C8 as stated: outside the all-integer case with precision 0 the value is always a
\* fixed-point string with exactly `precision` digits after the point.
C8_AlwaysFixedPoint ==
    UnpackedNumber
       => LET self   == sensors[last.idx]
              scalar == LastUnpacked.val[1]
              text   == self.value.s
          IN  /\ last.raised = "" /\ self.value.k = "str"
              /\ IF AllIntegers(self, scalar) /\ self.precision = 0
                 THEN text = IntStr(IntAdd(IntMul(self.scale, scalar), self.offset))
                 ELSE IsFixedPoint(text, self.precision)

\* the scalar 3 with scale 10, offset 5 and precision 1 gives "35.0"
C8_Witness ==
    /\ UnpackedNumber
    /\ HasExample(sensors[last.idx], 3, 10, 5, 1)
    /\ sensors[last.idx].value = StrValue(<<51, 53, 46, 48>>)

\* C9: after a poll of a register sensor whose read succeeded, the block the hub
\* returned holds the words it held when it was returned, in the same order, with
\* reverse_order true or false; so decoding the same block object again in a later
\* poll gives the same value.
C9_BlockUnchangedByDecode ==
    (pc = "running" /\ last.outcome = "ReadResult" /\ IsRegisterSensor(sensors[last.idx]))
       => read_result.registers = last.registers

\* the block object that held [7, 9] and decoded to "9,7" is returned again, now
\* holding [9, 7], and decodes to "7,9"
C9_SameBlockOtherValue ==
    /\ pc = "running" /\ last.outcome = "ReadResult" /\ last.same
    /\ Len(sensors) = 1 /\ sensors[1].reverse_order
    /\ last.registers = <<9, 7>> /\ read_result.registers = <<7, 9>>
    /\ sensors[1].value = StrValue(<<55, 44, 57>>)

\* C10: a poll of a register sensor with reverse_order true gives what the same
\* sensor with reverse_order false gives on the block with its words reversed (the
\* value, or the exception), and the byte string holds the two bytes of every word
\* most significant first.
C10_ReversalIsOfWords ==
    (pc = "running" /\ last.outcome = "ReadResult" /\ IsRegisterSensor(sensors[last.idx]))
       => LET self  == sensors[last.idx]
              twin  == [self EXCEPT !.reverse_order = FALSE]
              block == IF self.reverse_order THEN Reverse(last.registers)
                       ELSE last.registers
              d     == Decoding(twin, block)
              bytes == ByteString(block)
          IN  /\ last.raised = d.raised
              /\ d.raised = "" => self.value = d.value
              /\ Len(bytes) = 2 * Len(block)
              /\ \A k \in 1..Len(block) : /\ bytes[2 * k - 1] = block[k] \div 256
                                            /\ bytes[2 * k] = block[k] % 256

\* reverse_order true on the words [7, 9] gives "9,7"
C10_Witness ==
    /\ UnpackedValues(2, FALSE)
    /\ sensors[last.idx].reverse_order
    /\ last.registers = <<7, 9>>
    /\ sensors[last.idx].structure = <<">", "H", "H">>
    /\ sensors[last.idx].value = StrValue(<<57, 44, 55>>)

(***************************************************************************)
(* The round trip of the integer kinds: integers are packed into blocks,   *)
(* and a sensor of the kind, set up with scale 1, offset 0, precision 0    *)
(* and reverse_order false, is polled once with each block.                *)
(***************************************************************************)
\* 2^k and 2^k - 1 for k in lo..hi
PowersAround(lo, hi) ==
    { Pow2Mag(k) : k \in lo..hi } \cup { MagSub(Pow2Mag(k), <<1>>) : k \in lo..hi }

\* integers of the layout of `count` words, signed (two's complement) or unsigned:
\* every power of two and its predecessor, both ends of the range, and a few more
RoundTripIntegers(count, signed) ==
    LET bits == 16 * count
    IN  IF signed
        THEN { PyInt(FALSE, m) : m \in PowersAround(0, bits - 2)
                                        \cup { MagSub(Pow2Mag(bits - 1), <<1>>),
                                               NatToMag(42), NatToMag(12345) } }
             \cup { PyInt(TRUE, m) : m \in PowersAround(1, bits - 2)
                                            \cup { Pow2Mag(bits - 1), <<1>>,
                                                   MagSub(Pow2Mag(bits - 1), <<1>>),
                                                   NatToMag(42), NatToMag(12345) } }
        ELSE { PyInt(FALSE, m) : m \in PowersAround(0, bits - 1)
                                        \cup { MagSub(Pow2Mag(bits), <<1>>),
                                               MagSub(Pow2Mag(bits), <<2>>),
                                               NatToMag(42), NatToMag(12345) } }

\* the `count` 16-bit words of the magnitude u, most significant word first
RECURSIVE WordsOf(_, _)
WordsOf(u, count) ==
    IF count = 0 THEN <<>>
    ELSE LET qr == MagDivMod(u, 65536) IN WordsOf(qr.q, count - 1) \o <<qr.r>>

\* n packed into `count` big-endian words; a negative n as 2^(16 * count) - |n|
PackInteger(n, count) ==
    WordsOf(IF n.neg THEN MagSub(Pow2Mag(16 * count), n.mag) ELSE n.mag, count)

RoundTripBlocks(self) ==
    { PackInteger(n, self.count) :
        n \in RoundTripIntegers(self.count, self.data_type = DATA_TYPE_INT) }

RoundTripDiscoveryInfos ==
    { OnlyRegister(PlainEntry(c, t, <<>>, FALSE)) :
        c \in 1..4, t \in {DATA_TYPE_INT, DATA_TYPE_UINT} }

RoundTripInit ==
    /\ discovery_info \in RoundTripDiscoveryInfos
    /\ pc = "setup"
    /\ sensors = <<>>
    /\ read_result = NoResult
    /\ last = NoUpdate
    /\ fails = <<>>

RoundTripUpdate(i) == last.idx = 0 /\ RegisterPoll(i, RoundTripBlocks(sensors[i]))

RoundTripNext ==
    \/ Setup
    \/ \E i \in 1..Len(sensors) : RoundTripUpdate(i)

RoundTripSpec == RoundTripInit /\ [][RoundTripNext]_vars

\* the decimal digits of a magnitude, one division by ten for each
RECURSIVE DecimalDigits(_)
DecimalDigits(m) ==
    IF m = <<>> THEN <<>>
    ELSE LET qr == MagDivMod(m, 10) IN DecimalDigits(qr.q) \o <<48 + qr.r>>

\* the decimal string of the integer n
DecimalString(n) ==
    IF n.mag = <<>> THEN <<48>>
    ELSE (IF n.neg THEN <<45>> ELSE <<>>) \o DecimalDigits(n.mag)

\* blocks of known integers and the decimal strings of the integers
RoundTripExamples ==
    { [data_type |-> DATA_TYPE_INT, registers |-> <<65535>>,
       text |-> <<45, 49>>],
      [data_type |-> DATA_TYPE_INT, registers |-> <<32768>>,
       text |-> <<45, 51, 50, 55, 54, 56>>],
      [data_type |-> DATA_TYPE_UINT, registers |-> <<65535>>,
       text |-> <<54, 53, 53, 51, 53>>],
      [data_type |-> DATA_TYPE_INT, registers |-> <<32768, 0>>,
       text |-> <<45, 50, 49, 52, 55, 52, 56, 51, 54, 52, 56>>],
      [data_type |-> DATA_TYPE_UINT, registers |-> <<65535, 65535>>,
       text |-> <<52, 50, 57, 52, 57, 54, 55, 50, 57, 53>>],
      [data_type |-> DATA_TYPE_INT, registers |-> <<32767, 65535>>,
       text |-> <<50, 49, 52, 55, 52, 56, 51, 54, 52, 55>>],
      [data_type |-> DATA_TYPE_INT, registers |-> <<32768, 0, 0, 0>>,
       text |-> <<45, 57, 50, 50, 51, 51, 55, 50, 48, 51, 54, 56, 53, 52, 55, 55, 53, 56, 48, 56>>],
      [data_type |-> DATA_TYPE_INT, registers |-> <<32767, 65535, 65535, 65535>>,
       text |-> <<57, 50, 50, 51, 51, 55, 50, 48, 51, 54, 56, 53, 52, 55, 55, 53, 56, 48, 55>>],
      [data_type |-> DATA_TYPE_UINT, registers |-> <<65535, 65535, 65535, 65535>>,
       text |-> <<49, 56, 52, 52, 54, 55, 52, 52, 48, 55, 51, 55, 48, 57, 53, 53, 49, 54, 49, 53>>],
      [data_type |-> DATA_TYPE_UINT, registers |-> <<0, 0, 0, 42>>,
       text |-> <<52, 50>>] }

\* the latest poll read a block for a sensor of an integer kind with scale 1,
\* offset 0, precision 0 and reverse_order false
PlainIntegerPoll ==
    /\ pc = "running" /\ last.outcome = "ReadResult"
    /\ IsRegisterSensor(sensors[last.idx])
    /\ sensors[last.idx].data_type \in {DATA_TYPE_INT, DATA_TYPE_UINT}
    /\ sensors[last.idx].scale = SmallInt(1) /\ sensors[last.idx].offset = SmallInt(0)
    /\ sensors[last.idx].precision = 0 /\ ~sensors[last.idx].reverse_order

\* C11: for every supported count and every integer n of the signed (two's
\* complement) or unsigned layout of count * 16 bits, a poll with scale 1, offset 0,
\* precision 0 and reverse_order false that reads n packed into count big-endian
\* words, most significant word first, sets the value to exactly the decimal string
\* of n; and a sensor of an integer kind is polled only with a supported count.
C11_IntegerRoundTrip ==
    PlainIntegerPoll
       => LET self == sensors[last.idx]
              ns   == { n \in RoundTripIntegers(self.count, self.data_type = DATA_TYPE_INT) :
                           PackInteger(n, self.count) = last.registers }
          IN  /\ self.count \in {1, 2, 4}
              /\ ns # {}
              /\ last.raised = "" /\ self.available
              /\ \A n \in ns : self.value = StrValue(DecimalString(n))
              /\ \A e \in RoundTripExamples :
                    (e.data_type = self.data_type /\ e.registers = last.registers)
                       => self.value = StrValue(e.text)

\* the least 64-bit signed integer, packed into four words, comes back as its
\* decimal string
C11_Witness ==
    /\ PlainIntegerPoll
    /\ sensors[last.idx].data_type = DATA_TYPE_INT /\ sensors[last.idx].count = 4
    /\ last.registers = PackInteger(PyInt(TRUE, Pow2Mag(63)), 4)
    /\ last.registers = <<32768, 0, 0, 0>>
    /\ sensors[last.idx].value = StrValue(<<45, 57, 50, 50, 51, 51, 55, 50, 48, 51, 54, 56, 53, 52, 55, 55, 53, 56, 48, 56>>)

=============================================================================
